---- MODULE Spec2Model ----
(***************************************************************************)
(* A model of ircv3_tags: the IRCv3 message-tags parser (src/src/lib.rs),  *)
(* the RFC 952 host parser it uses for vendor prefixes (src/src/host.rs),  *)
(* the unescape transform and the IRCv3Tags collection with its accessors. *)
(*                                                                         *)
(* A Rust &str is modelled as a sequence of characters, each character a   *)
(* one-element token (a TLA+ string).  A sub-slice is the sequence of its  *)
(* characters.  Option<T> is a sequence of length at most one: None is     *)
(* <<>> and Some(v) is <<v>>.  An IResult is a record with a field ok:     *)
(* Ok((rem, out)) is [ok |-> TRUE, rem, out] and Err(nom::Err::Error(e))   *)
(* is [ok |-> FALSE] together with the fields of e.                        *)
(***************************************************************************)
EXTENDS Integers, Sequences, FiniteSets, TLC

VARIABLES
    pc,     \* "idle" | "parsed" | "done": where the caller stands
    line,   \* the input line handed to the parser
    res,    \* what the parser returned for line
    coll,   \* the IRCv3Tags collection the caller holds (Vec<(&str, Option<&str>)>)
    held,   \* TRUE while the caller owns coll (a consuming into_* moves it out)
    out     \* the last accessor call: [op, arg, val]

vars == <<pc, line, res, coll, held, out>>

----------------------------------------------------------------------------
(* Characters *)

SP == " "
TAB == "TAB"
NUL == "NUL"
CR == "CR"
LF == "LF"
BSL == "\\"
EACUTE == "e-acute"

AsciiAlpha == {"a", "b", "c", "d", "e", "f", "k", "n", "r", "s", "x"}
AsciiDigit == {"0", "1", "2"}
AsciiAlnum == AsciiAlpha \cup AsciiDigit
\* char::is_alphanumeric is Unicode-aware: it also holds of letters outside ASCII
UnicodeAlnum == AsciiAlnum \cup {EACUTE}

None == <<>>
Some(v) == <<v>>
IsSome(o) == Len(o) = 1
Unwrap(o) == o[1]
\* Option::unwrap_or
unwrap_or(o, d) == IF IsSome(o) THEN o[1] ELSE d

Take(s, n) == SubSeq(s, 1, n)
Drop(s, n) == SubSeq(s, n + 1, Len(s))

\* str::starts_with / ends_with / contains with a string pattern
starts_with(s, p) == Len(s) >= Len(p) /\ Take(s, Len(p)) = p
ends_with(s, p) == Len(s) >= Len(p) /\ Drop(s, Len(s) - Len(p)) = p
contains(s, p) ==
    \E i \in 0..(Len(s) - Len(p)) : SubSeq(s, i + 1, i + Len(p)) = p

\* the length of the longest prefix of s whose characters all lie in set
RECURSIVE SpanLen(_, _)
SpanLen(s, set) ==
    IF s = <<>> \/ Head(s) \notin set THEN 0 ELSE 1 + SpanLen(Tail(s), set)

\* the length of the longest prefix of s none of whose characters lies in stop
RECURSIVE TillLen(_, _)
TillLen(s, stop) ==
    IF s = <<>> \/ Head(s) \in stop THEN 0 ELSE 1 + TillLen(Tail(s), stop)

\* str::split(sep): the pieces between the occurrences of sep, empty ones kept
RECURSIVE split(_, _)
split(s, sep) ==
    IF TillLen(s, {sep}) = Len(s) THEN <<s>>
    ELSE <<Take(s, TillLen(s, {sep}))>> \o split(Drop(s, TillLen(s, {sep}) + 1), sep)

----------------------------------------------------------------------------
(* Errors (src/src/error.rs) *)

Ok(rem, o) == [ok |-> TRUE, rem |-> rem, out |-> o]

\* IRCv3TagsError { input, code, error, reason } and HostError { .. } share a shape
TagsError(input, code, error, reason) ==
    [ok |-> FALSE, input |-> input, code |-> code, error |-> error, reason |-> reason]

HostError(input, code, error, reason) ==
    [ok |-> FALSE, input |-> input, code |-> code, error |-> error, reason |-> reason]

\* nom::error::Error { input, code }: no semantic kind, no reason
NomError(input, code) == [ok |-> FALSE, input |-> input, code |-> code]

\* <IRCv3TagsError as ParseError>::from_error_kind
TagsFromErrorKind(input, kind) ==
    TagsError(input, kind, "NomError", "failed to parse IRCv3 message tags")

\* <HostError as ParseError>::from_error_kind
HostFromErrorKind(input, kind) ==
    HostError(input, kind, "NomError", "characters only letters, digits, and hyphen")

check_starts_ascii_alph(input) == input # <<>> /\ Head(input) \in AsciiAlpha

invalid_empty_label(input) ==
    HostError(input, "Alpha", "Empty", "label must start with the ascii alphabet")

invalid_start_with_letter(input) ==
    HostError(input, "Alpha", "HostErrorStartWithLetter",
              "label must start with the ascii alphabet")

invalid_ends_with(input) ==
    HostError(input, "Char", "HostErrorEndsWithLetterOrDigit",
              "end with an ascii alphabet or ascii digit")

invalid_consecutive_hiphens(input) ==
    HostError(input, "Char", "HostErrorNoConsecutiveHyphens",
              "cannot contain consecutive hyphens")

\* host::HYPHEN without the allow-underdash_host feature
HOST_HYPHEN == <<"-">>

\* invalid_label_hyphens, had it tested the end of the label only
invalid_label_hyphens_end_only(input) ==
    IF input # <<>> /\ \E i \in 1..Len(HOST_HYPHEN) : input[Len(input)] = HOST_HYPHEN[i]
    THEN invalid_ends_with(input)
    ELSE Ok(<<>>, <<>>)

invalid_label_hyphens(input) ==
    IF input # <<>> /\ \E i \in 1..Len(HOST_HYPHEN) : input[Len(input)] = HOST_HYPHEN[i]
    THEN invalid_ends_with(input)
    ELSE IF contains(input, <<"-", "-">>)
         THEN invalid_consecutive_hiphens(input)
         ELSE Ok(<<>>, <<>>)

----------------------------------------------------------------------------
(* Host grammar (src/src/host.rs) *)

\* label, had it left a bad first character to alpha1
label_unguarded(input) ==
    IF input = <<>> THEN invalid_empty_label(input)
    ELSE LET a == SpanLen(input, AsciiAlpha)
             m == SpanLen(Drop(input, a), AsciiAlnum \cup {HOST_HYPHEN[1]})
         IN  IF a = 0 THEN HostFromErrorKind(input, "Alpha")
             ELSE Ok(Drop(input, a + m), Take(input, a + m))

\* alpha1, then many0(alt((alphanumeric1, recognize(one_of(HYPHEN))))), recognized
label(input) ==
    IF input = <<>> THEN invalid_empty_label(input)
    ELSE IF ~check_starts_ascii_alph(input) THEN invalid_start_with_letter(input)
    ELSE LET a == SpanLen(input, AsciiAlpha)
             m == SpanLen(Drop(input, a), AsciiAlnum \cup {HOST_HYPHEN[1]})
         IN  Ok(Drop(input, a + m), Take(input, a + m))

dot(input) ==
    IF input # <<>> /\ Head(input) = "."
    THEN Ok(Tail(input), ".")
    ELSE NomError(input, "Char")

\* the loop of debug_host, had it stopped before a dot that no valid label
\* follows
RECURSIVE host_loop_lenient(_, _, _)
host_loop_lenient(input, current_input, position) ==
    LET stop == Ok(current_input, Take(input, position))
        checked(l, h) ==
            IF ~h.ok THEN stop
            ELSE host_loop_lenient(input, l.rem, position + Len(l.out) + 1)
        labelled(l) ==
            IF ~l.ok THEN stop ELSE checked(l, invalid_label_hyphens(l.out))
        dotted(d) ==
            IF ~d.ok THEN stop ELSE labelled(label(d.rem))
    IN  dotted(dot(current_input))

\* the while-let loop of debug_host
RECURSIVE host_loop(_, _, _)
host_loop(input, current_input, position) ==
    LET checked(l, h) ==
            IF ~h.ok THEN h
            ELSE host_loop(input, l.rem, position + Len(l.out) + 1)
        labelled(l) ==
            IF ~l.ok THEN l ELSE checked(l, invalid_label_hyphens(l.out))
        dotted(d) ==
            IF ~d.ok THEN Ok(current_input, Take(input, position))
            ELSE labelled(label(d.rem))
    IN  dotted(dot(current_input))

\* debug_host, had it started the position of the loop at zero
debug_host_from_zero(input) ==
    LET checked(l, h) ==
            IF ~h.ok THEN h
            ELSE IF starts_with(l.rem, <<".">>)
                 THEN host_loop(input, l.rem, 0)
                 ELSE Ok(l.rem, l.out)
        first(l) ==
            IF ~l.ok THEN l ELSE checked(l, invalid_label_hyphens(l.out))
    IN  first(label(input))

debug_host(input) ==
    LET checked(l, h) ==
            IF ~h.ok THEN h
            ELSE IF starts_with(l.rem, <<".">>)
                 THEN host_loop(input, l.rem, Len(l.out))
                 ELSE Ok(l.rem, l.out)
        first(l) ==
            IF ~l.ok THEN l ELSE checked(l, invalid_label_hyphens(l.out))
    IN  first(label(input))

host(input) ==
    LET map_err(r) == IF r.ok THEN r ELSE NomError(r.input, r.code)
    IN  map_err(debug_host(input))

\* validate_host, had it left out the trailing-hyphen test on each segment
validate_host_whole_only(input) ==
    /\ input # <<>>
    /\ check_starts_ascii_alph(input)
    /\ ~ends_with(input, HOST_HYPHEN)
    /\ ~contains(input, <<"-", "-">>)
    /\ \A i \in 1..Len(split(input, ".")) :
          LET segment == split(input, ".")[i]
              is_whole(l) == l.ok /\ l.rem = <<>> /\ check_starts_ascii_alph(segment)
          IN  is_whole(label(segment))

validate_host(input) ==
    /\ input # <<>>
    /\ check_starts_ascii_alph(input)
    /\ ~ends_with(input, HOST_HYPHEN)
    /\ ~contains(input, <<"-", "-">>)
    /\ \A i \in 1..Len(split(input, ".")) :
          LET segment == split(input, ".")[i]
              is_whole(l) ==
                  /\ l.ok
                  /\ l.rem = <<>>
                  /\ check_starts_ascii_alph(segment)
                  /\ ~ends_with(segment, <<"-">>)
          IN  is_whole(label(segment))

----------------------------------------------------------------------------
(* Unescape (src/src/lib.rs, unescaped_to_escaped) *)

\* escape_match, had it dropped the backslash of an unknown escape
escape_match_drops(next) ==
    CASE next = ":" -> <<";">>
      [] next = "s" -> <<SP>>
      [] next = BSL -> <<BSL>>
      [] next = "r" -> <<CR>>
      [] next = "n" -> <<LF>>
      [] OTHER      -> <<next>>

\* escape_match, had it taken \r for LF and \n for CR
escape_match_swapped(next) ==
    CASE next = ":" -> <<";">>
      [] next = "s" -> <<SP>>
      [] next = BSL -> <<BSL>>
      [] next = "r" -> <<LF>>
      [] next = "n" -> <<CR>>
      [] OTHER      -> <<BSL, next>>

\* what the match on the character after a backslash pushes
escape_match(next) ==
    CASE next = ":" -> <<";">>
      [] next = "s" -> <<SP>>
      [] next = BSL -> <<BSL>>
      [] next = "r" -> <<CR>>
      [] next = "n" -> <<LF>>
      [] OTHER      -> <<BSL, next>>

\* the while-let loop over value.chars()
RECURSIVE unescape_loop(_, _)
unescape_loop(chars, result) ==
    IF chars = <<>> THEN result
    ELSE LET c == Head(chars)
             rest == Tail(chars)
         IN  IF c = BSL
             THEN IF rest = <<>>
                  THEN unescape_loop(rest, Append(result, BSL))
                  ELSE unescape_loop(Tail(rest), result \o escape_match(Head(rest)))
             ELSE unescape_loop(rest, Append(result, c))

unescaped_to_escaped(value) == unescape_loop(value, <<>>)

----------------------------------------------------------------------------
(* Tag grammar (src/src/lib.rs) *)

\* HYPHEN without the allow-underdash_key_name feature
HYPHEN == <<"-">>

\* the five characters a tag value stops at
ValueStop == {NUL, CR, LF, ";", SP}

\* nom's char(c) with IRCv3TagsError as the error type
char(c, input) ==
    IF input # <<>> /\ Head(input) = c
    THEN Ok(Tail(input), c)
    ELSE TagsFromErrorKind(input, "Char")

client_prefix(input) == char("+", input)

\* key_name, had it reported an empty input as a bad first character
key_name_one_kind(input) ==
    IF input = <<>> \/ ~check_starts_ascii_alph(input) \/ starts_with(input, HYPHEN)
    THEN TagsError(input, "Char", "TagErrorStartWithLetter",
                   "tag key must start with the ascii alphabet")
    ELSE LET n == SpanLen(input, AsciiAlnum \cup {HYPHEN[i] : i \in 1..Len(HYPHEN)})
         IN  IF n = 0 THEN TagsFromErrorKind(input, "Many1")
             ELSE Ok(Drop(input, n), Take(input, n))

key_name(input) ==
    IF input = <<>>
    THEN TagsError(input, "Char", "Empty", "tag key must start with the ascii alphabet")
    ELSE IF ~check_starts_ascii_alph(input) \/ starts_with(input, HYPHEN)
    THEN TagsError(input, "Char", "TagErrorStartWithLetter",
                   "tag key must start with the ascii alphabet")
    ELSE \* recognize(many1(alt((alphanumeric1, recognize(one_of(HYPHEN))))))
         LET n == SpanLen(input, AsciiAlnum \cup {HYPHEN[i] : i \in 1..Len(HYPHEN)})
         IN  IF n = 0 THEN TagsFromErrorKind(input, "Many1")
             ELSE Ok(Drop(input, n), Take(input, n))

\* escaped_value, had it let a carriage return through
escaped_value_past_cr(input) ==
    LET n == TillLen(input, ValueStop \ {CR})
    IN  Ok(Drop(input, n), Take(input, n))

\* take_till(one of NUL, CR, LF, ';', ' ')
escaped_value(input) ==
    LET n == TillLen(input, ValueStop)
    IN  Ok(Drop(input, n), Take(input, n))

vendor(input) ==
    LET map_err(r) == IF r.ok THEN r ELSE TagsError(r.input, r.code, r.error, r.reason)
    IN  map_err(debug_host(input))

\* key, had it kept the key name alone and not the recognized text
key_decomposed(input) ==
    LET recognized(k) ==
            IF k.ok THEN Ok(k.rem, k.out)
            ELSE TagsError(k.input, k.code, k.error, k.reason)
        opt(i, r) == IF r.ok THEN r.rem ELSE i
        slashed(v) == IF v.ok THEN char("/", v.rem) ELSE v
        after_prefix(i1) == recognized(key_name(opt(i1, slashed(vendor(i1)))))
    IN  after_prefix(opt(input, client_prefix(input)))

\* recognize((opt(client_prefix), opt(terminated(vendor, char('/'))), key_name))
key(input) ==
    LET recognized(k) ==
            IF k.ok
            THEN Ok(k.rem, Take(input, Len(input) - Len(k.rem)))
            ELSE TagsError(k.input, k.code, k.error, k.reason)
        \* opt(...): an element that fails leaves the input where it was
        opt(i, r) == IF r.ok THEN r.rem ELSE i
        slashed(v) == IF v.ok THEN char("/", v.rem) ELSE v
        after_prefix(i1) == recognized(key_name(opt(i1, slashed(vendor(i1)))))
    IN  after_prefix(opt(input, client_prefix(input)))

\* tag, had it unescaped the value while parsing
tag_unescaping(input) ==
    LET valued(k, v) == Ok(v.rem, <<k.out, Some(unescaped_to_escaped(v.out))>>)
        opt_value(k, e) ==
            IF e.ok THEN valued(k, escaped_value(e.rem)) ELSE Ok(k.rem, <<k.out, None>>)
        keyed(k) == IF ~k.ok THEN k ELSE opt_value(k, char("=", k.rem))
    IN  keyed(key(input))

\* tag, had it stored an empty value as an absent one
tag_empty_is_none(input) ==
    LET valued(k, v) == Ok(v.rem, <<k.out, IF v.out = <<>> THEN None ELSE Some(v.out)>>)
        opt_value(k, e) ==
            IF e.ok THEN valued(k, escaped_value(e.rem)) ELSE Ok(k.rem, <<k.out, None>>)
        keyed(k) == IF ~k.ok THEN k ELSE opt_value(k, char("=", k.rem))
    IN  keyed(key(input))

\* (key, opt(preceded(char('='), escaped_value)))
tag(input) ==
    LET valued(k, v) == Ok(v.rem, <<k.out, Some(v.out)>>)
        opt_value(k, e) ==
            IF e.ok THEN valued(k, escaped_value(e.rem)) ELSE Ok(k.rem, <<k.out, None>>)
        keyed(k) == IF ~k.ok THEN k ELSE opt_value(k, char("=", k.rem))
    IN  keyed(key(input))

\* the loop of separated_list1, had it taken a ';' that no tag follows
RECURSIVE tags_loop_trailing(_, _)
tags_loop_trailing(i, acc) ==
    LET element(sep, t) ==
            IF ~t.ok THEN Ok(sep.rem, acc)
            ELSE IF Len(t.rem) = Len(i)
                 THEN TagsFromErrorKind(i, "SeparatedList")
                 ELSE tags_loop_trailing(t.rem, Append(acc, t.out))
        separator(sep) == IF ~sep.ok THEN Ok(i, acc) ELSE element(sep, tag(sep.rem))
    IN  separator(char(";", i))

\* the loop of separated_list1(char(';'), tag) after its first element
RECURSIVE tags_loop(_, _)
tags_loop(i, acc) ==
    LET element(t) ==
            IF ~t.ok THEN Ok(i, acc)
            ELSE IF Len(t.rem) = Len(i)
                 THEN TagsFromErrorKind(i, "SeparatedList")
                 ELSE tags_loop(t.rem, Append(acc, t.out))
        separator(sep) == IF ~sep.ok THEN Ok(i, acc) ELSE element(tag(sep.rem))
    IN  separator(char(";", i))

\* tags, had it used separated_list0
tags_list0(input) ==
    LET first(t) == IF ~t.ok THEN Ok(input, <<>>) ELSE tags_loop(t.rem, <<t.out>>)
    IN  first(tag(input))

tags(input) ==
    LET first(t) == IF ~t.ok THEN t ELSE tags_loop(t.rem, <<t.out>>)
    IN  first(tag(input))

\* space1, had it been char(' ')
space1_single(input) ==
    IF input # <<>> /\ Head(input) = SP
    THEN Ok(Tail(input), <<SP>>)
    ELSE TagsFromErrorKind(input, "Char")

\* space1: one or more spaces or tabs
space1(input) ==
    LET n == SpanLen(input, {SP, TAB}) IN
    IF n = 0 THEN TagsFromErrorKind(input, "Space") ELSE Ok(Drop(input, n), Take(input, n))

\* debug_parse, had it left the missing '@' to char('@')
debug_parse_unchecked(input) ==
    LET terminated(t, s) ==
            IF ~s.ok THEN TagsError(s.input, s.code, s.error, s.reason)
            ELSE Ok(s.rem, t.out)
        listed(t) ==
            IF ~t.ok THEN TagsError(t.input, t.code, t.error, t.reason)
            ELSE terminated(t, space1(t.rem))
        marked(a) == listed(IF a.ok THEN tags(a.rem) ELSE a)
    IN  marked(char("@", input))

debug_parse(input) ==
    IF input = <<>> \/ ~starts_with(input, <<"@">>)
    THEN TagsError(input, "Char", "TagErrorStartWithLetter", "tag must start with an '@'")
    ELSE \* delimited(char('@'), tags, space1)
         LET terminated(t, s) ==
                 IF ~s.ok THEN TagsError(s.input, s.code, s.error, s.reason)
                 ELSE Ok(s.rem, t.out)
             listed(t) ==
                 IF ~t.ok THEN TagsError(t.input, t.code, t.error, t.reason)
                 ELSE terminated(t, space1(t.rem))
             marked(a) == listed(IF a.ok THEN tags(a.rem) ELSE a)
         IN  marked(char("@", input))

\* try_parse, had it reported the line instead of the failing slice
try_parse_at_line(input) ==
    LET map_err(r) == IF r.ok THEN r ELSE NomError(input, r.code)
    IN  map_err(debug_parse(input))

try_parse(input) ==
    LET map_err(r) == IF r.ok THEN r ELSE NomError(r.input, r.code)
    IN  map_err(debug_parse(input))

\* parse: try_parse(input).unwrap(), which panics on an Err
parse(input) ==
    LET unwrap(r) ==
            IF r.ok THEN [panicked |-> FALSE, rem |-> r.rem, out |-> r.out]
            ELSE [panicked |-> TRUE]
    IN  unwrap(try_parse(input))

\* validate_key_name, had it not looked at the last character
validate_key_name_any_end(k) ==
    /\ k # <<>>
    /\ ~starts_with(k, HYPHEN)
    /\ \A i \in 1..Len(k) :
          k[i] \in UnicodeAlnum \/ \E j \in 1..Len(HYPHEN) : k[i] = HYPHEN[j]

validate_key_name(k) ==
    /\ k # <<>>
    /\ ~(starts_with(k, HYPHEN) \/ ends_with(k, HYPHEN))
    /\ \A i \in 1..Len(k) :
          k[i] \in UnicodeAlnum \/ \E j \in 1..Len(HYPHEN) : k[i] = HYPHEN[j]

validate_vendor(input) ==
    \A i \in 1..Len(split(input, ".")) :
        LET segment == split(input, ".")[i] IN
        /\ ~starts_with(segment, <<"-">>)
        /\ ~ends_with(segment, <<"-">>)
        /\ segment # <<>>

----------------------------------------------------------------------------
(* Character validators (src/src/traits.rs, src/src/tags.rs) *)

StandardTagValidator ==
    [kind |-> "StandardTagValidator", extra_chars |-> {}, extra_start_chars |-> {}]

\* CustomTagNameValidator::new()
CustomTagNameValidator ==
    [kind |-> "CustomTagNameValidator", extra_chars |-> {}, extra_start_chars |-> {}]

allow_chars(self, chars) == [self EXCEPT !.extra_chars = @ \cup chars]

allow_start_chars(self, chars) == [self EXCEPT !.extra_start_chars = @ \cup chars]

\* the validator of host labels given to every RFC952HostParser of a tag parser
StandardHostValidator ==
    [kind |-> "StandardHostValidator", extra_chars |-> {}, extra_start_chars |-> {}]

\* the Standard host policy: ASCII letters, digits and the hyphen
StandardHostValidator_is_valid_char(c) == c \in AsciiAlnum \/ c = "-"

\* the Standard host policy: a label starts with an ASCII letter
StandardHostValidator_is_valid_start_char(c) == c \in AsciiAlpha

\* the Standard host policy: a label may not end with a hyphen nor hold two in a row
StandardHostValidator_is_invalid_char(s) ==
    ends_with(s, <<"-">>) \/ contains(s, <<"-", "-">>)

\* CharValidator::is_valid_char of each implementation
is_valid_char(self, c) ==
    CASE self.kind = "StandardTagValidator" -> c \in UnicodeAlnum \/ c = "-"
      [] self.kind = "CustomTagNameValidator" ->
            c \in UnicodeAlnum \/ c = "-" \/ c \in self.extra_chars
      [] self.kind = "StandardHostValidator" -> StandardHostValidator_is_valid_char(c)

\* CharValidator::is_valid_start_char of each implementation
is_valid_start_char(self, c) ==
    CASE self.kind = "StandardTagValidator" -> c \in AsciiAlpha
      [] self.kind = "CustomTagNameValidator" ->
            c \in AsciiAlpha \/ c \in self.extra_start_chars
      [] self.kind = "StandardHostValidator" -> StandardHostValidator_is_valid_start_char(c)

\* CharValidator::is_invalid_char: false unless the implementation overrides it
is_invalid_char(self, s) ==
    IF self.kind = "StandardHostValidator"
    THEN StandardHostValidator_is_invalid_char(s)
    ELSE FALSE

\* the for loop of while_valid: the characters after the first that are valid
RECURSIVE valid_len(_, _)
valid_len(self, chars) ==
    IF chars = <<>> \/ ~is_valid_char(self, Head(chars)) THEN 0
    ELSE 1 + valid_len(self, Tail(chars))

\* while_valid, had it tested the first character as a continue character too
while_valid_from_first(self, input, first_char) ==
    LET at(position) == Ok(Drop(input, position), Take(input, position))
    IN  at(valid_len(self, input))

\* CharValidator::while_valid: (&input[position..], &input[..position])
while_valid(self, input, first_char) ==
    LET at(position) == Ok(Drop(input, position), Take(input, position))
    IN  at(1 + valid_len(self, Tail(input)))

----------------------------------------------------------------------------
(* RFC952HostParser::try_host, after section 4.2 of the specification *)

host_label(h, input) ==
    IF input = <<>>
    THEN HostError(input, "Char", "Empty", "label must not be empty")
    ELSE IF ~is_valid_start_char(h, Head(input))
    THEN HostError(input, "Char", "Host", "label must start with an allowed character")
    ELSE while_valid(h, input, Head(input))

\* a label that fails the construct check is reported at the original input
RECURSIVE try_host_loop(_, _, _, _)
try_host_loop(h, input, current_input, position) ==
    LET labelled(l) ==
            IF ~l.ok THEN l
            ELSE IF is_invalid_char(h, l.out)
                 THEN HostError(input, "Char", "Host", "label contains an invalid chracter")
                 ELSE try_host_loop(h, input, l.rem, position + Len(l.out) + 1)
    IN  IF starts_with(current_input, <<".">>)
        THEN labelled(host_label(h, Tail(current_input)))
        ELSE Ok(current_input, Take(input, position))

try_host(h, input) ==
    LET first(l) ==
            IF ~l.ok THEN l
            ELSE IF is_invalid_char(h, l.out)
                 THEN HostError(input, "Char", "Host", "label contains an invalid chracter")
                 ELSE try_host_loop(h, input, l.rem, Len(l.out))
    IN  first(host_label(h, input))

----------------------------------------------------------------------------
(* IRCv3TagsParser (src/src/tags.rs) *)

\* IRCv3TagsParser::default()
Parser_default ==
    [tag_name_validator |-> StandardTagValidator, host_validator |-> StandardHostValidator]

\* IRCv3TagsParser::new(validator)
Parser_new(validator) ==
    [tag_name_validator |-> validator, host_validator |-> StandardHostValidator]

Parser_client_prefix(self, input) == char("+", input)

Parser_key_name(self, input) ==
    IF input = <<>>
    THEN TagsError(input, "Char", "Empty", "tag key does not allow empty")
    ELSE IF ~is_valid_start_char(self.tag_name_validator, Head(input))
    THEN TagsError(input, "Char", "TagErrorStartWithLetter",
                   "tag key must start with an allowed character")
    ELSE LET scanned(w) ==
                 IF w.rem = <<>>
                 THEN TagsError(input, "Char", "Empty", "tag key must not be empty")
                 ELSE w
         IN  scanned(while_valid(self.tag_name_validator, input, Head(input)))

Parser_escaped_value(self, input) ==
    LET n == TillLen(input, ValueStop)
    IN  Ok(Drop(input, n), Take(input, n))

\* key, had it handed the key-name validator to the host parser
Parser_key_one_policy(self, input) ==
    LET recognized(k) ==
            IF k.ok
            THEN Ok(k.rem, Take(input, Len(input) - Len(k.rem)))
            ELSE TagsError(k.input, k.code, k.error, k.reason)
        opt(i, r) == IF r.ok THEN r.rem ELSE i
        map_err(r) == IF r.ok THEN r ELSE TagsError(r.input, r.code, r.error, r.reason)
        slashed(v) == IF v.ok THEN char("/", v.rem) ELSE v
        after_prefix(i1) ==
            recognized(Parser_key_name(self,
                opt(i1, slashed(map_err(try_host(self.tag_name_validator, i1))))))
    IN  after_prefix(opt(input, Parser_client_prefix(self, input)))

\* recognize((opt(client_prefix), opt(terminated(try_host, char('/'))), key_name))
Parser_key(self, input) ==
    LET recognized(k) ==
            IF k.ok
            THEN Ok(k.rem, Take(input, Len(input) - Len(k.rem)))
            ELSE TagsError(k.input, k.code, k.error, k.reason)
        opt(i, r) == IF r.ok THEN r.rem ELSE i
        map_err(r) == IF r.ok THEN r ELSE TagsError(r.input, r.code, r.error, r.reason)
        slashed(v) == IF v.ok THEN char("/", v.rem) ELSE v
        after_prefix(i1) ==
            recognized(Parser_key_name(self,
                opt(i1, slashed(map_err(try_host(self.host_validator, i1))))))
    IN  after_prefix(opt(input, Parser_client_prefix(self, input)))

Parser_tag(self, input) ==
    LET valued(k, v) == Ok(v.rem, <<k.out, Some(v.out)>>)
        opt_value(k, e) ==
            IF e.ok THEN valued(k, Parser_escaped_value(self, e.rem))
            ELSE Ok(k.rem, <<k.out, None>>)
        keyed(k) == IF ~k.ok THEN k ELSE opt_value(k, char("=", k.rem))
    IN  keyed(Parser_key(self, input))

RECURSIVE Parser_tags_loop(_, _, _)
Parser_tags_loop(self, i, acc) ==
    LET element(t) ==
            IF ~t.ok THEN Ok(i, acc)
            ELSE IF Len(t.rem) = Len(i)
                 THEN TagsFromErrorKind(i, "SeparatedList")
                 ELSE Parser_tags_loop(self, t.rem, Append(acc, t.out))
        separator(sep) == IF ~sep.ok THEN Ok(i, acc) ELSE element(Parser_tag(self, sep.rem))
    IN  separator(char(";", i))

Parser_try_tags(self, input) ==
    LET first(t) == IF ~t.ok THEN t ELSE Parser_tags_loop(self, t.rem, <<t.out>>)
    IN  first(Parser_tag(self, input))

Parser_debug_parse(self, input) ==
    IF input = <<>> \/ ~starts_with(input, <<"@">>)
    THEN TagsError(input, "Char", "TagErrorStartWithLetter", "tag must start with an '@'")
    ELSE LET terminated(t, s) ==
                 IF ~s.ok THEN TagsError(s.input, s.code, s.error, s.reason)
                 ELSE Ok(s.rem, t.out)
             listed(t) ==
                 IF ~t.ok THEN TagsError(t.input, t.code, t.error, t.reason)
                 ELSE terminated(t, space1(t.rem))
             marked(a) == listed(IF a.ok THEN Parser_try_tags(self, a.rem) ELSE a)
         IN  marked(char("@", input))

Parser_try_parse(self, input) ==
    LET map_err(r) == IF r.ok THEN r ELSE NomError(r.input, r.code)
    IN  map_err(Parser_debug_parse(self, input))

----------------------------------------------------------------------------
(* The IRCv3Tags collection (src/src/lib.rs) *)

\* a HashMap is a function from its keys; insert overwrites an existing key
EmptyMap == [x \in {} |-> <<>>]
insert(m, k, v) == [x \in (DOMAIN m) \cup {k} |-> IF x = k THEN v ELSE m[x]]

\* Iterator::collect into a HashMap: the pairs are inserted in iteration order
RECURSIVE collect(_, _)
collect(pairs, m) ==
    IF pairs = <<>> THEN m
    ELSE collect(Tail(pairs), insert(m, Head(pairs)[1], Head(pairs)[2]))

\* get, had it returned the last match
RECURSIVE get_last(_, _)
get_last(c, k) ==
    IF c = <<>> THEN None
    ELSE IF c[Len(c)][1] = k
         THEN Some(unwrap_or(c[Len(c)][2], <<>>))
         ELSE get_last(SubSeq(c, 1, Len(c) - 1), k)

\* find_map over the tags in order
RECURSIVE get(_, _)
get(c, k) ==
    IF c = <<>> THEN None
    ELSE IF Head(c)[1] = k
         THEN Some(unwrap_or(Head(c)[2], <<>>))
         ELSE get(Tail(c), k)

\* get_escaped, had it returned the raw value
get_escaped_raw(c, k) == get(c, k)

get_escaped(c, k) ==
    LET g == get(c, k) IN
    IF IsSome(g) THEN Some(unescaped_to_escaped(Unwrap(g))) ELSE None

to_hashmap(c) ==
    collect([i \in 1..Len(c) |-> <<c[i][1], unwrap_or(c[i][2], <<>>)>>], EmptyMap)

into_hashmap(c) ==
    collect([i \in 1..Len(c) |-> <<c[i][1], unwrap_or(c[i][2], <<>>)>>], EmptyMap)

to_hashmap_escaped(c) ==
    collect([i \in 1..Len(c) |->
                <<c[i][1], unescaped_to_escaped(unwrap_or(c[i][2], <<>>))>>], EmptyMap)

into_hashmap_escaped(c) ==
    collect([i \in 1..Len(c) |->
                <<c[i][1], unescaped_to_escaped(unwrap_or(c[i][2], <<>>))>>], EmptyMap)

\* to_map, had it left out the tags without a value
to_map_skips_valueless(c) ==
    LET valued == SelectSeq(c, LAMBDA t : IsSome(t[2])) IN
    collect([i \in 1..Len(valued) |-> <<valued[i][1], Unwrap(valued[i][2])>>], EmptyMap)

to_map(c) ==
    collect([i \in 1..Len(c) |-> <<c[i][1], unwrap_or(c[i][2], <<>>)>>], EmptyMap)

into_map(c) ==
    collect([i \in 1..Len(c) |-> <<c[i][1], unwrap_or(c[i][2], <<>>)>>], EmptyMap)

to_map_escaped(c) ==
    collect([i \in 1..Len(c) |->
                <<c[i][1], unescaped_to_escaped(unwrap_or(c[i][2], <<>>))>>], EmptyMap)

into_map_escaped(c) ==
    collect([i \in 1..Len(c) |->
                <<c[i][1], unescaped_to_escaped(unwrap_or(c[i][2], <<>>))>>], EmptyMap)

----------------------------------------------------------------------------
(* The inputs *)

\* the longest line made of arbitrary characters
MaxLen == 4
\* the most tags in a well-formed line
MaxTags == 2
\* the longest arbitrary value handed to unescaped_to_escaped
MaxValLen == 3

\* all sequences over alphabet of length at most n
RECURSIVE Strings(_, _)
Strings(alphabet, n) ==
    IF n = 0 THEN {<<>>}
    ELSE LET shorter == Strings(alphabet, n - 1)
         IN  shorter \cup {Append(s, c) : s \in shorter, c \in alphabet}

RawAlphabet == {"@", "a", "=", ";", SP, TAB, "-", "/", "+"}
RawLines == Strings(RawAlphabet, MaxLen)

KeySamples ==
    { <<"a">>, <<"+", "a">>, <<"a", ".", "b", "/", "k", "1">>,
      <<"+", "b", "-", "1", "/", "a", "-">> }

\* r"a\:b\sc\\d\re\nf"
ExampleRaw ==
    <<"a", BSL, ":", "b", BSL, "s", "c", BSL, BSL, "d", BSL, "r", "e", BSL, "n", "f">>

ValueSamples == { <<>>, <<BSL, "s">>, <<"1", "=", TAB, BSL>> }

\* a tag as it is written: key, or key=value
TagText(k, v) == IF IsSome(v) THEN k \o <<"=">> \o Unwrap(v) ELSE k

TagSamples ==
    {<<k, None>> : k \in KeySamples}
        \cup {<<k, Some(v)>> : k \in KeySamples, v \in ValueSamples}

RECURSIVE TagLists(_)
TagLists(n) ==
    IF n = 0 THEN {<<>>}
    ELSE LET shorter == TagLists(n - 1)
         IN  shorter \cup {Append(l, t) : l \in shorter, t \in TagSamples}

RECURSIVE Join(_)
Join(l) ==
    IF l = <<>> THEN <<>>
    ELSE IF Len(l) = 1 THEN TagText(l[1][1], l[1][2])
    ELSE TagText(l[1][1], l[1][2]) \o <<";">> \o Join(Tail(l))

RestSamples == { <<>>, <<":", "n", SP, "x">>, <<LF>> }

WellFormedLines ==
    { <<"@">> \o Join(l) \o <<SP>> \o r : l \in TagLists(MaxTags) \ {<<>>}, r \in RestSamples }

\* "@k=a\:b\sc\\d\re\nf :r", the line of test_escaped_semicolon
TestLines ==
    { <<"@", "k", "=">> \o ExampleRaw \o <<SP, ":", "r">>,
      <<"@", "k", "=", "1", CR, SP, "r">> }

Lines == RawLines \cup WellFormedLines \cup TestLines

LookupKeys == KeySamples \cup { <<"k">>, <<"x">>, <<"k", "1">> }

EscAlphabet == {BSL, ":", "s", "r", "n", "d", ";"}
Values == Strings(EscAlphabet, MaxValLen) \cup ValueSamples \cup {ExampleRaw}

KeysOf(c) == {c[i][1] : i \in 1..Len(c)}

\* the longest arbitrary host handed to host, debug_host and the validators
MaxHostLen == 4
\* the longest arbitrary key handed to key, key_name and the tag parsers
MaxKeyLen == 4

HostAlphabet == {"a", "1", "-", ".", "_", SP}
HostInputs == Strings(HostAlphabet, MaxHostLen)

\* characters a CustomTagNameValidator is told to allow
ExtraChars == {"_", "$"}

KeyAlphabet == {"a", "-", "/", "+"} \cup ExtraChars
\* keys with a letter that is alphanumeric but not ASCII
UnicodeKeys ==
    { <<EACUTE>>, <<"a", EACUTE>>, <<"a", EACUTE, "-">>, <<"a", "/", "a", EACUTE>>,
      <<"a", EACUTE, "/", "a">> }

KeyInputs == Strings(KeyAlphabet, MaxKeyLen) \cup KeySamples \cup UnicodeKeys

\* what escaped_value is handed: text with the characters a value stops at
ValueAlphabet == {"a", "=", ";", SP, NUL, CR, LF}
ValueInputs == Strings(ValueAlphabet, MaxValLen)

\* StandardTagValidator and the custom validators a caller builds
Validators ==
    {StandardTagValidator}
        \cup {allow_start_chars(allow_chars(CustomTagNameValidator, a), s) :
                a \in {{}, {"_"}, ExtraChars}, s \in {{}, {"_"}}}

\* '@', a candidate key, and what follows it
KeyTails == { <<SP>>, <<"=", "1", SP, "x">> }
\* lines with a tag missing after a ';' or before it
EmptyTagLines ==
    { <<"@", "a", ";", SP>>, <<"@", "a", ";", ";", "a", SP>>,
      <<"@", "a", "=", "1", ";", SP, "x">>, <<"@", ";", "a", SP>> }

ParserLines == { <<"@">> \o k \o t : k \in KeyInputs, t \in KeyTails } \cup EmptyTagLines

----------------------------------------------------------------------------
(* The caller: one parse, then any accessors on the collection it returned *)

NoCall == [fn |-> "none"]
NoOut == [op |-> "none"]

Init ==
    /\ pc = "idle"
    /\ line = <<>>
    /\ res = NoCall
    /\ coll = <<>>
    /\ held = FALSE
    /\ out = NoOut

\* the caller keeps the collection of a successful parse
Returned(fn, l, r) ==
    /\ pc' = "parsed"
    /\ line' = l
    /\ res' = [fn |-> fn, r |-> r]
    /\ coll' = IF r.ok THEN r.out ELSE <<>>
    /\ held' = r.ok
    /\ UNCHANGED out

DebugParse ==
    /\ pc = "idle"
    /\ \E l \in Lines : Returned("debug_parse", l, debug_parse(l))

TryParse ==
    /\ pc = "idle"
    /\ \E l \in Lines : Returned("try_parse", l, try_parse(l))

\* a &self accessor: the collection stays with the caller
Borrowing(op, arg, val) ==
    /\ pc = "parsed"
    /\ held
    /\ out' = [op |-> op, arg |-> arg, val |-> val]
    /\ UNCHANGED <<pc, line, res, coll, held>>

\* a self accessor: the collection is moved into the call
Consuming(op, val) ==
    /\ pc = "parsed"
    /\ held
    /\ out' = [op |-> op, arg |-> <<>>, val |-> val]
    /\ held' = FALSE
    /\ coll' = <<>>
    /\ UNCHANGED <<pc, line, res>>

Get == \E k \in LookupKeys \cup KeysOf(coll) : Borrowing("get", k, get(coll, k))

GetEscaped ==
    \E k \in LookupKeys \cup KeysOf(coll) : Borrowing("get_escaped", k, get_escaped(coll, k))

ToHashmap == Borrowing("to_hashmap", <<>>, to_hashmap(coll))

IntoHashmap == Consuming("into_hashmap", into_hashmap(coll))

ToHashmapEscaped == Borrowing("to_hashmap_escaped", <<>>, to_hashmap_escaped(coll))

IntoHashmapEscaped == Consuming("into_hashmap_escaped", into_hashmap_escaped(coll))

ToMap == Borrowing("to_map", <<>>, to_map(coll))

IntoMap == Consuming("into_map", into_map(coll))

ToMapEscaped == Borrowing("to_map_escaped", <<>>, to_map_escaped(coll))

IntoMapEscaped == Consuming("into_map_escaped", into_map_escaped(coll))

UnescapedToEscaped ==
    /\ pc = "idle"
    /\ \E v \in Values :
        /\ pc' = "done"
        /\ out' = [op |-> "unescaped_to_escaped", arg |-> v, val |-> unescaped_to_escaped(v)]
        /\ UNCHANGED <<line, res, coll, held>>

\* a call of a function that returns a value and keeps nothing
Call(op, arg, val) ==
    /\ pc' = "done"
    /\ out' = [op |-> op, arg |-> arg, val |-> val]
    /\ UNCHANGED <<line, res, coll, held>>

\* a call of a method of a tag parser built for the call
CallOn(op, self, arg, val) ==
    /\ pc' = "done"
    /\ out' = [op |-> op, self |-> self, arg |-> arg, val |-> val]
    /\ UNCHANGED <<line, res, coll, held>>

Parse ==
    /\ pc = "idle"
    /\ \E l \in Lines : Call("parse", l, parse(l))

Host ==
    /\ pc = "idle"
    /\ \E x \in HostInputs : Call("host", x, host(x))

DebugHost ==
    /\ pc = "idle"
    /\ \E x \in HostInputs : Call("debug_host", x, debug_host(x))

ValidateHost ==
    /\ pc = "idle"
    /\ \E x \in HostInputs : Call("validate_host", x, validate_host(x))

ValidateVendor ==
    /\ pc = "idle"
    /\ \E x \in HostInputs : Call("validate_vendor", x, validate_vendor(x))

Key ==
    /\ pc = "idle"
    /\ \E x \in KeyInputs \cup HostInputs : Call("key", x, key(x))

KeyName ==
    /\ pc = "idle"
    /\ \E x \in KeyInputs : Call("key_name", x, key_name(x))

EscapedValue ==
    /\ pc = "idle"
    /\ \E x \in ValueInputs : Call("escaped_value", x, escaped_value(x))

ParserEscapedValue ==
    /\ pc = "idle"
    /\ \E x \in ValueInputs :
          CallOn("Parser.escaped_value", Parser_default, x,
                 Parser_escaped_value(Parser_default, x))

ValidateKeyName ==
    /\ pc = "idle"
    /\ \E x \in KeyInputs \cup HostInputs :
          Call("validate_key_name", x, validate_key_name(x))

ParserKey ==
    /\ pc = "idle"
    /\ \E v \in Validators, x \in KeyInputs :
          CallOn("Parser.key", Parser_new(v), x, Parser_key(Parser_new(v), x))

ParserKeyName ==
    /\ pc = "idle"
    /\ \E v \in Validators, x \in KeyInputs :
          CallOn("Parser.key_name", Parser_new(v), x, Parser_key_name(Parser_new(v), x))

ParserDebugParse ==
    /\ pc = "idle"
    /\ \E v \in Validators, l \in ParserLines :
          CallOn("Parser.debug_parse", Parser_new(v), l, Parser_debug_parse(Parser_new(v), l))

ParserTryParse ==
    /\ pc = "idle"
    /\ \E v \in Validators, l \in ParserLines :
          CallOn("Parser.try_parse", Parser_new(v), l, Parser_try_parse(Parser_new(v), l))

Next ==
    \/ DebugParse
    \/ TryParse
    \/ Get
    \/ GetEscaped
    \/ ToHashmap
    \/ IntoHashmap
    \/ ToHashmapEscaped
    \/ IntoHashmapEscaped
    \/ ToMap
    \/ IntoMap
    \/ ToMapEscaped
    \/ IntoMapEscaped
    \/ UnescapedToEscaped
    \/ Parse
    \/ Host
    \/ DebugHost
    \/ ValidateHost
    \/ ValidateVendor
    \/ Key
    \/ KeyName
    \/ ValidateKeyName
    \/ EscapedValue
    \/ ParserEscapedValue
    \/ ParserKey
    \/ ParserKeyName
    \/ ParserDebugParse
    \/ ParserTryParse

Spec == Init /\ [][Next]_vars

----------------------------------------------------------------------------
(* The grammar of a well-formed line, stated without the parser *)

Whitespace == {SP, TAB, CR, LF}

Chars(s) == {s[i] : i \in 1..Len(s)}

\* the pieces of s between occurrences of sep
RECURSIVE Split(_, _)
Split(s, sep) ==
    LET n == TillLen(s, {sep}) IN
    IF n = Len(s) THEN <<s>> ELSE <<Take(s, n)>> \o Split(Drop(s, n + 1), sep)

\* a key name: an ASCII letter, then ASCII letters, digits and hyphens
RefName(s) ==
    /\ s # <<>>
    /\ s[1] \in AsciiAlpha
    /\ \A i \in 1..Len(s) : s[i] \in AsciiAlnum \cup {"-"}

\* a host label: a name that neither ends with a hyphen nor holds two in a row
RefLabel(s) ==
    /\ RefName(s)
    /\ s[Len(s)] # "-"
    /\ \A i \in 1..(Len(s) - 1) : ~(s[i] = "-" /\ s[i + 1] = "-")

RefHost(s) ==
    LET labels == Split(s, ".") IN \A i \in 1..Len(labels) : RefLabel(labels[i])

\* [+][host/]name
RefKey(k) ==
    LET k1 == IF k # <<>> /\ k[1] = "+" THEN Tail(k) ELSE k
        n  == TillLen(k1, {"/"})
    IN  IF n = Len(k1) THEN RefName(k1)
        ELSE RefHost(Take(k1, n)) /\ RefName(Drop(k1, n + 1))

\* a piece "key" or "key=value" as a stored tag
RefTagOf(piece) ==
    LET n == TillLen(piece, {"="}) IN
    IF n = Len(piece) THEN <<piece, None>>
    ELSE <<Take(piece, n), Some(Drop(piece, n + 1))>>

\* the text between the '@' and the first space, and the text after that space
RefBody(l) == Take(Tail(l), TillLen(Tail(l), {SP}))
RefRest(l) == Drop(Tail(l), TillLen(Tail(l), {SP}) + 1)

RefTags(l) ==
    LET pieces == Split(RefBody(l), ";") IN
    [i \in 1..Len(pieces) |-> RefTagOf(pieces[i])]

RefWellFormed(l) ==
    /\ l # <<>>
    /\ l[1] = "@"
    /\ SP \in Chars(l)
    /\ RefRest(l) = <<>> \/ RefRest(l)[1] \notin Whitespace
    /\ \A i \in 1..Len(RefTags(l)) :
          LET t == RefTags(l)[i] IN
          /\ RefKey(t[1])
          /\ IsSome(t[2]) => Chars(Unwrap(t[2])) \cap {NUL, CR, LF} = {}

Parsed == res.fn # "none"
StartsWithMarker(l) == l # <<>> /\ l[1] = "@"

\* the text of a collection as it is written in a line
RECURSIVE Render(_)
Render(c) ==
    IF c = <<>> THEN <<>>
    ELSE IF Len(c) = 1 THEN TagText(c[1][1], c[1][2])
    ELSE TagText(c[1][1], c[1][2]) \o <<";">> \o Render(Tail(c))

----------------------------------------------------------------------------
(* Claims *)

\* C1: a line '@' t1 ';' ... ';' tn ' ' rest with valid keys, values free of
\* NUL, CR, LF, ';' and space, and rest not starting with whitespace parses
\* successfully; the remainder is rest and the collection is the sequence of
\* (key, value) in input order, duplicates kept, the values raw.
C1_WellFormedLineParses ==
    (Parsed /\ RefWellFormed(line)) =>
        /\ res.r.ok
        /\ res.r.rem = RefRest(line)
        /\ res.r.out = RefTags(line)

\* two tags with the same key and different values, one of them with an
\* escape sequence, in front of a non-empty remainder
C1_Witness ==
    /\ Parsed
    /\ RefWellFormed(line)
    /\ res.r.ok
    /\ Len(res.r.out) = 2
    /\ res.r.out[1][1] = res.r.out[2][1]
    /\ res.r.out[1][2] = Some(<<BSL, "s">>)
    /\ res.r.out[2][2] = None
    /\ res.r.rem # <<>>

\* C2 as stated: on an input that does not start with '@', try_parse fails
\* with the "must start with marker" error kind and the whole input as the
\* failing slice.
C2_TryParseReportsMarkerKind ==
    (res.fn = "try_parse" /\ ~StartsWithMarker(line)) =>
        /\ ~res.r.ok
        /\ res.r.input = line
        /\ "error" \in DOMAIN res.r
        /\ res.r.error = "TagErrorStartWithLetter"

\* C2 as amended: on an input that does not start with '@' (the empty input
\* included) no collection is produced; try_parse fails with the whole input
\* as failing slice and the generic code Char, and carries no semantic kind;
\* debug_parse fails with the same slice and code, the kind
\* TagErrorStartWithLetter and the reason "tag must start with an '@'".
C2_NoMarkerFails ==
    (Parsed /\ ~StartsWithMarker(line)) =>
        /\ ~res.r.ok
        /\ ~held
        /\ res.r.input = line
        /\ res.r.code = "Char"
        /\ res.fn = "try_parse" => DOMAIN res.r = {"ok", "input", "code"}
        /\ res.fn = "debug_parse" =>
              /\ res.r.error = "TagErrorStartWithLetter"
              /\ res.r.reason = "tag must start with an '@'"

C2_Witness ==
    /\ res.fn = "try_parse"
    /\ line = <<"a", "=", "a", SP>>
    /\ ~res.r.ok

\* C3 as stated: on a successful parse exactly one space is consumed as the
\* delimiter: input = '@' + tag-list text + ' ' + remainder.
C3_SingleSpaceDelimiter ==
    (Parsed /\ res.r.ok) =>
        line = <<"@">> \o Render(res.r.out) \o <<SP>> \o res.r.rem

\* C3 as amended: on a successful parse the tag list is ended by a non-empty
\* run of spaces and tabs, all of it consumed: input = '@' + tag-list text +
\* run + remainder, and the remainder does not begin with a space or a tab.
C3_SpaceRunDelimiter ==
    (Parsed /\ res.r.ok) =>
        LET body == <<"@">> \o Render(res.r.out)
            n    == Len(line) - Len(body) - Len(res.r.rem)
            run  == SubSeq(line, Len(body) + 1, Len(body) + n)
        IN  /\ n >= 1
            /\ line = body \o run \o res.r.rem
            /\ Chars(run) \subseteq {SP, TAB}
            /\ res.r.rem = <<>> \/ res.r.rem[1] \notin {SP, TAB}

\* a tag list followed by two spaces
C3_Witness ==
    /\ Parsed
    /\ res.r.ok
    /\ line = <<"@", "a", SP, SP>>
    /\ res.r.rem = <<>>

\* C4: '@' alone and '@' followed by a space fail, and a successful parse
\* returns at least one tag.
C4_EmptyTagListFails ==
    Parsed =>
        /\ (line = <<"@">> \/ starts_with(line, <<"@", SP>>)) => ~res.r.ok
        /\ res.r.ok => Len(res.r.out) >= 1
        /\ held => Len(coll) >= 1

C4_Witness ==
    /\ Parsed
    /\ line = <<"@", SP, "a">>
    /\ ~res.r.ok

\* where tag i of collection c starts in a line that renders it after '@'
RECURSIVE TagStart(_, _)
TagStart(c, i) ==
    IF i = 1 THEN 1
    ELSE TagStart(c, i - 1) + Len(TagText(c[i - 1][1], c[i - 1][2])) + 1

\* C5: a stored value is Some(v), v possibly empty, exactly when the key is
\* followed by '=' in the input, and None exactly when it is not.
C5_ValuePresentIffEquals ==
    (Parsed /\ res.r.ok) =>
        \A i \in 1..Len(res.r.out) :
            LET k      == res.r.out[i][1]
                keyEnd == TagStart(res.r.out, i) + Len(k)
            IN  /\ keyEnd <= Len(line)
                /\ SubSeq(line, TagStart(res.r.out, i) + 1, keyEnd) = k
                /\ IsSome(res.r.out[i][2]) <=>
                      (keyEnd < Len(line) /\ line[keyEnd + 1] = "=")

\* a tag with an empty value next to a tag without a value
C5_Witness ==
    /\ Parsed
    /\ res.r.ok
    /\ Len(res.r.out) = 2
    /\ res.r.out[1][2] = Some(<<>>)
    /\ res.r.out[2][2] = None

\* the indices of the tags of c whose key is k
Matches(c, k) == {i \in 1..Len(c) : c[i][1] = k}
Min(S) == CHOOSE x \in S : \A y \in S : x <= y
Max(S) == CHOOSE x \in S : \A y \in S : x >= y

\* the collection the parser returned (coll itself is moved out by into_*)
Returns == res.r.out

\* C6: get(key) is None iff no stored tag has that key; otherwise it is the
\* value of the first tag with that key, a valueless tag giving Some("");
\* later tags with the same key do not count.
C6_GetFirstMatch ==
    out.op = "get" =>
        LET m == Matches(Returns, out.arg) IN
        IF m = {} THEN out.val = None
        ELSE out.val = Some(unwrap_or(Returns[Min(m)][2], <<>>))

\* a lookup of a key stored twice, first without a value and then with one
C6_Witness ==
    /\ out.op = "get"
    /\ Cardinality(Matches(Returns, out.arg)) = 2
    /\ Returns[1][2] = None
    /\ Returns[2][2] = Some(<<BSL, "s">>)
    /\ out.val = Some(<<>>)

\* the unescape transform stated position by position: a character is escaped
\* when an odd number of backslashes stands directly in front of it
BslBefore(s, i) ==
    CHOOSE n \in 0..(i - 1) :
        /\ \A j \in (i - n)..(i - 1) : s[j] = BSL
        /\ n = i - 1 \/ s[i - n - 1] # BSL

Escaped(s, i) == BslBefore(s, i) % 2 = 1

RefDecode(c) ==
    IF c = ":" THEN <<";">>
    ELSE IF c = "s" THEN <<SP>>
    ELSE IF c = BSL THEN <<BSL>>
    ELSE IF c = "r" THEN <<CR>>
    ELSE IF c = "n" THEN <<LF>>
    ELSE <<BSL, c>>

RefPiece(s, i) ==
    IF Escaped(s, i) THEN RefDecode(s[i])
    ELSE IF s[i] = BSL THEN (IF i = Len(s) THEN <<BSL>> ELSE <<>>)
    ELSE <<s[i]>>

RECURSIVE RefUnescapeUpTo(_, _)
RefUnescapeUpTo(s, n) ==
    IF n = 0 THEN <<>> ELSE RefUnescapeUpTo(s, n - 1) \o RefPiece(s, n)

RefUnescape(s) == RefUnescapeUpTo(s, Len(s))

\* C7: unescaped_to_escaped is the single left-to-right pass: \: gives ';',
\* \s space, \\ one backslash, \r CR, \n LF, a backslash before any other
\* character stays with that character, a lone trailing backslash stays, and
\* every other character is copied.
C7_UnescapeIsReferencePass ==
    out.op = "unescaped_to_escaped" => out.val = RefUnescape(out.arg)

\* an unknown escape followed by a lone trailing backslash
C7_Witness ==
    /\ out.op = "unescaped_to_escaped"
    /\ out.arg = <<BSL, "d", BSL>>
    /\ out.val = <<BSL, "d", BSL>>

\* C8 as stated: the raw value a\:b\sc\\d\re\nf unescapes to 'a;b c\d'
\* followed by CR, LF and 'f'.
C8_ExampleAsStated ==
    (out.op = "unescaped_to_escaped" /\ out.arg = ExampleRaw) =>
        out.val = <<"a", ";", "b", SP, "c", BSL, "d", CR, LF, "f">>

\* C8 as amended: the raw value a\:b\sc\\d\re\nf unescapes to 'a;b c\d'
\* followed by CR, 'e', LF and 'f': the 'e' between \r and \n is kept.
C8_ExampleUnescapes ==
    (out.op = "unescaped_to_escaped" /\ out.arg = ExampleRaw) =>
        out.val = <<"a", ";", "b", SP, "c", BSL, "d", CR, "e", LF, "f">>

C8_Witness ==
    /\ out.op = "unescaped_to_escaped"
    /\ out.arg = ExampleRaw
    /\ Len(out.val) = 11

\* m maps each key of raw to the unescaped value raw holds for it
UnescapesMap(m, raw) ==
    /\ DOMAIN m = DOMAIN raw
    /\ \A k \in DOMAIN raw : m[k] = unescaped_to_escaped(raw[k])

\* C9: get_escaped(k) is None iff get(k) is None and otherwise
\* Some(unescape(get(k))); each escaped export maps every key to the unescape
\* of the value the corresponding raw export holds for it.
C9_EscapedIsRawThenUnescape ==
    /\ out.op = "get_escaped" =>
          LET raw == get(Returns, out.arg) IN
          /\ out.val = None <=> raw = None
          /\ raw # None => out.val = Some(unescaped_to_escaped(Unwrap(raw)))
    /\ out.op = "to_hashmap_escaped" => UnescapesMap(out.val, to_hashmap(Returns))
    /\ out.op = "into_hashmap_escaped" => UnescapesMap(out.val, into_hashmap(Returns))
    /\ out.op = "to_map_escaped" => UnescapesMap(out.val, to_map(Returns))
    /\ out.op = "into_map_escaped" => UnescapesMap(out.val, into_map(Returns))

\* an escaped lookup whose value differs from the raw one
C9_Witness ==
    /\ out.op = "get_escaped"
    /\ get(Returns, out.arg) = Some(<<BSL, "s">>)
    /\ out.val = Some(<<SP>>)

\* the mapping every raw export holds: each key of the collection, with the
\* raw value of the last tag that has that key, "" when that tag has none
RawProjection(c) ==
    [k \in KeysOf(c) |-> unwrap_or(c[Max(Matches(c, k))][2], <<>>)]

\* C10: to_hashmap, into_hashmap, to_map and into_map yield the same mapping
\* of the collection's keys to raw values, a valueless tag exported as "",
\* no key left out and no value changed; the borrowing ones leave the
\* collection with the caller, unchanged.
C10_RawExportsAgree ==
    /\ out.op \in {"to_hashmap", "into_hashmap", "to_map", "into_map"} =>
          out.val = RawProjection(Returns)
    /\ out.op \in {"to_hashmap", "to_map"} => (held /\ coll = Returns)
    /\ out.op \in {"into_hashmap", "into_map"} => ~held

\* an owned export of a collection that holds a valueless tag
C10_Witness ==
    /\ out.op = "to_map"
    /\ Len(Returns) = 2
    /\ Returns[1][2] = None
    /\ Returns[2][2] = Some(<<BSL, "s">>)
    /\ Returns[1][1] # Returns[2][1]
    /\ out.val[Returns[1][1]] = <<>>

\* C11: a key is an optional '+', an optional vendor host with its '/', and a
\* key name; the key of a stored tag is the text of the input that covers all
\* three, and get matches a tag only by that whole text, not by the key name
\* alone and not by the key without its '+'.
C11_KeyIsVerbatimText ==
    /\ (Parsed /\ res.r.ok) =>
          \A i \in 1..Len(res.r.out) :
              /\ RefKey(res.r.out[i][1])
              /\ SubSeq(line, TagStart(res.r.out, i) + 1,
                        TagStart(res.r.out, i) + Len(res.r.out[i][1])) = res.r.out[i][1]
    /\ out.op = "key" =>
          /\ RefKey(out.arg) => out.val = Ok(<<>>, out.arg)
          /\ out.val.ok => RefKey(out.val.out) /\ out.val.out \o out.val.rem = out.arg
    /\ out.op = "get" => (IsSome(out.val) <=> out.arg \in KeysOf(coll))

\* a tag 'a.b/k1' looked up by its key name 'k1' alone
C11_Witness ==
    /\ out.op = "get"
    /\ \E i \in 1..Len(coll) : coll[i][1] = <<"a", ".", "b", "/", "k", "1">>
    /\ out.arg = <<"k", "1">>
    /\ out.val = None

\* the candidate key of a line '@' key tail, up to its '=' or its space
KeyOfLine(l) == Take(Tail(l), TillLen(Tail(l), {"=", SP}))

\* the characters that are neither alphanumeric nor '-' and that the tag
\* grammar gives no meaning of their own
Special(c) == c \notin UnicodeAlnum \cup {"-", "+", "/", "=", ";", SP, TAB}

\* a key name but for its special characters, one of which it holds
NameWithSpecial(k) ==
    /\ k # <<>>
    /\ k[1] \in AsciiAlpha \/ Special(k[1])
    /\ \A i \in 1..Len(k) : k[i] \in UnicodeAlnum \cup {"-"} \/ Special(k[i])
    /\ \E i \in 1..Len(k) : Special(k[i])

ParserParsed == out.op \in {"Parser.try_parse", "Parser.debug_parse"}

\* C12 as stated: a parser with a CustomTagNameValidator accepts a key name
\* with a special character c iff c was given to allow_chars and, where c is
\* the first character, to allow_start_chars as well; the Standard parser
\* fails on the line.
C12_AllowCharsEverywhere ==
    (ParserParsed /\ NameWithSpecial(KeyOfLine(out.arg))) =>
        LET k == KeyOfLine(out.arg)
            v == out.self.tag_name_validator
        IN  IF v.kind = "StandardTagValidator" THEN ~out.val.ok
            ELSE out.val.ok <=>
                    /\ \A i \in 1..Len(k) : Special(k[i]) => k[i] \in v.extra_chars
                    /\ Special(k[1]) => k[1] \in v.extra_start_chars

\* C12, amended: the first character is held against allow_start_chars alone
\* and every later one against allow_chars alone.
C12_StartAndContinueApart ==
    (ParserParsed /\ NameWithSpecial(KeyOfLine(out.arg))) =>
        LET k == KeyOfLine(out.arg)
            v == out.self.tag_name_validator
        IN  IF v.kind = "StandardTagValidator" THEN ~out.val.ok
            ELSE out.val.ok <=>
                    /\ \A i \in 2..Len(k) : Special(k[i]) => k[i] \in v.extra_chars
                    /\ Special(k[1]) => k[1] \in v.extra_start_chars

\* '_a' parsed with '_' allowed as a start character only
C12_Witness ==
    /\ out.op = "Parser.try_parse"
    /\ out.self.tag_name_validator = allow_start_chars(CustomTagNameValidator, {"_"})
    /\ out.arg = <<"@", "_", "a", "=", "1", SP, "x">>
    /\ out.val = Ok(<<"x">>, << <<<<"_", "a">>, Some(<<"1">>)>> >>)

\* the vendor part of a key with a '/': what stands before it, less the '+'
VendorOf(k) ==
    LET k1 == IF k # <<>> /\ k[1] = "+" THEN Tail(k) ELSE k
    IN  Take(k1, TillLen(k1, {"/"}))

\* the same call on the default parser
OnDefaultParser ==
    IF out.op = "Parser.try_parse"
    THEN Parser_try_parse(Parser_default, out.arg)
    ELSE Parser_debug_parse(Parser_default, out.arg)

\* C13: whatever the key-name validator, the vendor host of a key is held
\* against the Standard host policy: an accepted vendor part is a host of
\* ASCII letters, digits and hyphens, and a line whose key holds none of
\* the allowed characters fares exactly as under the default parser.
C13_VendorAlwaysStandardHost ==
    (ParserParsed /\ "/" \in Chars(KeyOfLine(out.arg))) =>
        /\ out.val.ok => RefHost(VendorOf(KeyOfLine(out.arg)))
        /\ Chars(KeyOfLine(out.arg)) \cap ExtraChars = {} =>
              out.val = OnDefaultParser

\* 'a_/a' refused by a parser that allows '_' in key names
C13_Witness ==
    /\ out.op = "Parser.debug_parse"
    /\ out.self.tag_name_validator =
          allow_start_chars(allow_chars(CustomTagNameValidator, {"_"}), {"_"})
    /\ out.arg = <<"@", "a", "_", "/", "a", SP>>
    /\ ~out.val.ok

\* C14: host(x) succeeds and leaves nothing exactly when x is one or more
\* labels joined by single dots, each an ASCII letter followed by ASCII
\* letters, digits and hyphens, not ending with a hyphen and with no two
\* hyphens in a row; what it then returns is x itself.
C14_HostAcceptsExactlyHosts ==
    out.op = "host" =>
        /\ (out.val.ok /\ out.val.rem = <<>>) <=> RefHost(out.arg)
        /\ (out.val.ok /\ out.val.rem = <<>>) => out.val.out = out.arg

\* a label with two hyphens in a row, refused
C14_Witness ==
    /\ out.op = "host"
    /\ out.arg = <<"a", "-", "-", "a">>
    /\ ~out.val.ok

\* C15: validate_host(x) is true exactly when the host grammar applied to x
\* succeeds and consumes all of x.
C15_ValidateHostIsWholeHost ==
    out.op = "validate_host" =>
        (out.val <=> (host(out.arg).ok /\ host(out.arg).rem = <<>>))

\* a first label ending with a hyphen, found invalid
C15_Witness ==
    /\ out.op = "validate_host"
    /\ out.arg = <<"a", "-", ".", "a">>
    /\ ~out.val

\* a vendor segment: alphanumerics and hyphens, not empty, no hyphen at
\* either end
RefVendorSegment(s) ==
    /\ s # <<>>
    /\ \A i \in 1..Len(s) : s[i] \in UnicodeAlnum \cup {"-"}
    /\ s[1] # "-"
    /\ s[Len(s)] # "-"

\* C16: validate_vendor(x) is true exactly when x is one or more segments
\* separated by dots, every segment non-empty, made of alphanumeric
\* characters and hyphens only, and neither starting nor ending with a hyphen.
C16_ValidateVendorIsSegments ==
    out.op = "validate_vendor" =>
        (out.val <=> \A i \in 1..Len(Split(out.arg, ".")) :
                        RefVendorSegment(Split(out.arg, ".")[i]))

\* t is what is left of the diagnostic result d once the kind and the reason
\* of its error are dropped
Projects(t, d) ==
    /\ t.ok <=> d.ok
    /\ d.ok => (t.rem = d.rem /\ t.out = d.out)
    /\ ~d.ok => /\ t.input = d.input
                /\ t.code = d.code
                /\ DOMAIN t \cap {"error", "reason"} = {}

\* C17: try_parse succeeds exactly when debug_parse does, with the same
\* remainder and collection, and fails with the same slice and code, kind and
\* reason dropped; host stands to debug_host in the same way; parse returns
\* the success value of try_parse and panics exactly when try_parse fails.
C17_TolerantProjectsDiagnostic ==
    /\ res.fn = "try_parse" => Projects(res.r, debug_parse(line))
    /\ out.op = "Parser.try_parse" =>
          Projects(out.val, Parser_debug_parse(out.self, out.arg))
    /\ out.op = "host" => Projects(out.val, debug_host(out.arg))
    /\ out.op = "parse" =>
          /\ out.val.panicked <=> ~try_parse(out.arg).ok
          /\ ~out.val.panicked => /\ out.val.rem = try_parse(out.arg).rem
                                  /\ out.val.out = try_parse(out.arg).out

\* try_parse failing past the start of the line
C17_Witness ==
    /\ res.fn = "try_parse"
    /\ ~res.r.ok
    /\ res.r.input # line
    /\ res.r.input # <<>>

\* what the vendor host of the first key of a line is parsed from: the line
\* after its '@' and the '+' of a client-only tag
HostText(l) ==
    LET t == Tail(l) IN IF t # <<>> /\ t[1] = "+" THEN Tail(t) ELSE t

HyphenKinds == {"HostErrorEndsWithLetterOrDigit", "HostErrorNoConsecutiveHyphens"}

\* the first key of the line has a '/' and the host before it fails on a
\* hyphen
VendorFails(l) ==
    /\ starts_with(l, <<"@">>)
    /\ "/" \in Chars(KeyOfLine(l))
    /\ ~debug_host(HostText(l)).ok
    /\ debug_host(HostText(l)).error \in HyphenKinds

\* the same for the host parser of an IRCv3TagsParser
ParserVendorFails(self, l) ==
    /\ starts_with(l, <<"@">>)
    /\ "/" \in Chars(KeyOfLine(l))
    /\ ~try_host(self.host_validator, HostText(l)).ok
    /\ try_host(self.host_validator, HostText(l)).error = "Host"

\* C18: when the host before the '/' of a key fails, debug_parse returns that
\* failure as a tag error with the host error's slice, code, kind and reason.
C18_HostFailureReachesCaller ==
    /\ (res.fn = "debug_parse" /\ VendorFails(line)) =>
          LET e(d) == res.r = TagsError(d.input, d.code, d.error, d.reason)
          IN  e(debug_host(HostText(line)))
    /\ (out.op = "Parser.debug_parse" /\ ParserVendorFails(out.self, out.arg)) =>
          LET e(d) == out.val = TagsError(d.input, d.code, d.error, d.reason)
          IN  e(try_host(out.self.host_validator, HostText(out.arg)))

\* C19: when a label of a host, the first or a later one, ends with a hyphen
\* or holds two in a row, the slice of the error is the input the host
\* parser was given, not the label.
C19_HyphenErrorAtOuterInput ==
    (out.op = "debug_host" /\ ~out.val.ok /\ out.val.error \in HyphenKinds) =>
        out.val.input = out.arg

\* s is a key name under the validator v: its first character passes the
\* start rule and the others the continue rule
ValidNameFor(v, s) ==
    /\ s # <<>>
    /\ is_valid_start_char(v, s[1])
    /\ \A i \in 2..Len(s) : is_valid_char(v, s[i])

\* [+][host/]name under the validator v
ValidKeyFor(v, k) ==
    LET k1 == IF k # <<>> /\ k[1] = "+" THEN Tail(k) ELSE k
        n  == TillLen(k1, {"/"})
    IN  IF n = Len(k1) THEN ValidNameFor(v, k1)
        ELSE RefHost(Take(k1, n)) /\ ValidNameFor(v, Drop(k1, n + 1))

WholeInput == out.val.ok /\ out.val.rem = <<>> /\ out.val.out = out.arg

\* the free functions key and key_name take a key that ends the input
LibKeyToEnd ==
    /\ (out.op = "key" /\ RefKey(out.arg)) => WholeInput
    /\ (out.op = "key_name" /\ RefName(out.arg)) => WholeInput

\* C20: on an input that is entirely a valid key, the key and key-name
\* parsers return Ok with an empty remainder and the whole input as the key.
C20_KeyToEndOfInput ==
    /\ LibKeyToEnd
    /\ (out.op = "Parser.key"
            /\ ValidKeyFor(out.self.tag_name_validator, out.arg)) => WholeInput
    /\ (out.op = "Parser.key_name"
            /\ ValidNameFor(out.self.tag_name_validator, out.arg)) => WholeInput

DefaultParser == out.self.tag_name_validator = StandardTagValidator

\* C21: under the Standard key-name policy an accepted key name is an ASCII
\* letter followed by ASCII letters, ASCII digits and hyphens; no other
\* alphanumeric character is part of a key the default parser accepts.
C21_StandardKeyNameIsAscii ==
    /\ (out.op = "key_name" /\ out.val.ok) => RefName(out.val.out)
    /\ (out.op = "Parser.key_name" /\ DefaultParser /\ out.val.ok) =>
          RefName(out.val.out)
    /\ (ParserParsed /\ DefaultParser /\ out.val.ok) =>
          \A i \in 1..Len(out.val.out) :
              Chars(out.val.out[i][1]) \subseteq AsciiAlnum \cup {"-", "+", "/", "."}

\* the label text that starts s: its longest run of label characters
LabelRun(s) == Take(s, SpanLen(s, AsciiAlnum \cup {"-"}))

\* a dot of x that follows a valid host and that no valid label follows
DotBeforeBadLabel(x) ==
    \E i \in 1..Len(x) :
        /\ x[i] = "."
        /\ RefHost(Take(x, i - 1))
        /\ ~RefLabel(LabelRun(Drop(x, i)))

\* C22: the host parser fails whenever a dot after a valid label is followed
\* by an invalid label, and a remainder it returns never begins with a dot.
C22_HostFailsAfterDot ==
    out.op \in {"host", "debug_host"} =>
        /\ DotBeforeBadLabel(out.arg) => ~out.val.ok
        /\ out.val.ok => ~starts_with(out.val.rem, <<".">>)

\* 'a.1': a second label starting with a digit
C22_Witness ==
    /\ out.op = "host"
    /\ out.arg = <<"a", ".", "1">>
    /\ ~out.val.ok

\* the five characters no tag value may hold
Forbidden == {NUL, CR, LF, ";", SP}

\* C23: the value parser never fails; the value is the longest prefix of the
\* input free of NUL, CR, LF, ';' and space, the remainder is empty or begins
\* with one of the five, and no value of a collection holds any of them.
C23_ValueStopsAtForbidden ==
    /\ out.op \in {"escaped_value", "Parser.escaped_value"} =>
          /\ out.val.ok
          /\ out.val.out \o out.val.rem = out.arg
          /\ Chars(out.val.out) \cap Forbidden = {}
          /\ out.val.rem = <<>> \/ out.val.rem[1] \in Forbidden
    /\ \A i \in 1..Len(coll) :
          coll[i][2] # None => Chars(coll[i][2][1]) \cap Forbidden = {}

\* a value cut at a carriage return
C23_Witness ==
    /\ out.op = "escaped_value"
    /\ out.arg = <<"a", CR, "a">>
    /\ out.val.out = <<"a">>

\* where the key name of a candidate key starts: after the '+' and after a
\* valid host and its '/'
NameStartOf(k) ==
    LET k1 == IF k # <<>> /\ k[1] = "+" THEN Tail(k) ELSE k
        n  == TillLen(k1, {"/"})
    IN  IF n < Len(k1) /\ RefHost(Take(k1, n)) THEN Drop(k1, n + 1) ELSE k1

\* the error kind, code and slice of a key-name failure at the text s, whose
\* first character may be an ASCII letter or one of start
Classified(val, s, start) ==
    /\ s = <<>> =>
          /\ ~val.ok
          /\ val.error = "Empty"
          /\ val.code = "Char"
          /\ val.input = <<>>
    /\ (s # <<>> /\ s[1] \notin AsciiAlpha \cup start) =>
          /\ ~val.ok
          /\ val.error = "TagErrorStartWithLetter"
          /\ val.code = "Char"
          /\ val.input = s

C25_HostLeadingFailures ==
    out.op = "debug_host" =>
        /\ out.arg = <<>> =>
              /\ ~out.val.ok
              /\ out.val.error = "Empty"
              /\ out.val.input = <<>>
        /\ (out.arg # <<>> /\ out.arg[1] \notin AsciiAlpha) =>
              /\ ~out.val.ok
              /\ out.val.error = "HostErrorStartWithLetter"
              /\ out.val.code = "Alpha"
              /\ out.val.input = out.arg

\* a host starting with a digit
C25_Witness ==
    /\ out.op = "debug_host"
    /\ out.arg = <<"1", "a", ".", "a">>
    /\ ~out.val.ok
    /\ out.val.error = "HostErrorStartWithLetter"

\* C26: on success the matched host is a prefix of the input, dots included,
\* and the matched host followed by the remainder is the input.
C26_HostIsVerbatimPrefix ==
    (out.op \in {"host", "debug_host"} /\ out.val.ok) =>
        /\ out.val.out \o out.val.rem = out.arg
        /\ Len(out.val.out) <= Len(out.arg)

\* two labels and a remainder
C26_Witness ==
    /\ out.op = "debug_host"
    /\ out.arg = <<"a", ".", "a", SP>>
    /\ out.val.ok
    /\ out.val.out = <<"a", ".", "a">>
    /\ out.val.rem = <<SP>>

\* HashMap::get
MapGet(m, k) == IF k \in DOMAIN m THEN Some(m[k]) ELSE None

RawExports == {"to_hashmap", "into_hashmap", "to_map", "into_map"}

\* C27: for every key, the raw maps hold what get returns, also for a key
\* that occurs more than once in the tag list.
C27_MapsAgreeWithGet ==
    out.op \in RawExports =>
        \A k \in LookupKeys \cup KeysOf(Returns) :
            MapGet(out.val, k) = get(Returns, k)

\* the tag list of a line: what stands between its '@' and the first space
\* or tab
TagListOf(l) == Take(Tail(l), TillLen(Tail(l), {SP, TAB}))

\* a ';' of the tag list that the delimiter or another ';' follows
EmptyTagIn(l) ==
    /\ starts_with(l, <<"@">>)
    /\ \E i \in 1..Len(TagListOf(l)) :
          /\ TagListOf(l)[i] = ";"
          /\ i = Len(TagListOf(l)) \/ TagListOf(l)[i + 1] = ";"

\* C28: a line whose tag list has a ';' followed directly by the delimiter or
\* by another ';' fails to parse, and no stored tag has an empty key.
C28_EmptyTagFails ==
    /\ (res.fn \in {"try_parse", "debug_parse"} /\ EmptyTagIn(line)) => ~res.r.ok
    /\ (ParserParsed /\ EmptyTagIn(out.arg)) => ~out.val.ok
    /\ \A i \in 1..Len(coll) : coll[i][1] # <<>>
    /\ (ParserParsed /\ out.val.ok) =>
          \A i \in 1..Len(out.val.out) : out.val.out[i][1] # <<>>

\* '@a; ': a ';' right before the delimiting space
C28_Witness ==
    /\ res.fn = "try_parse"
    /\ line = <<"@", "a", ";", SP>>
    /\ ~res.r.ok

\* C29: on every line the default parser and the free try_parse both fail,
\* or both succeed with the same remainder and the same collection.
C29_DefaultParserIsTryParse ==
    (out.op = "Parser.try_parse" /\ DefaultParser) =>
        /\ out.val.ok <=> try_parse(out.arg).ok
        /\ out.val.ok => /\ out.val.rem = try_parse(out.arg).rem
                         /\ out.val.out = try_parse(out.arg).out

\* key_name takes all of k
KeyNameTakesAll(k) == key_name(k).ok /\ key_name(k).rem = <<>>

\* C30 as stated: validate_key_name(k) is true exactly when key_name accepts
\* k and consumes all of it.
C30_ValidateIsKeyNameGrammar ==
    out.op = "validate_key_name" => (out.val <=> KeyNameTakesAll(out.arg))

\* C30: validate_key_name(k) is true exactly when k is not empty, holds only
\* alphanumeric characters and hyphens and has no hyphen at either end; a
\* valid k that starts with an ASCII letter and is all ASCII is a key name
\* that key_name takes whole, and a key name that key_name takes whole is
\* valid unless it ends with a hyphen.
C30_ValidateIsStricterOnHyphens ==
    out.op = "validate_key_name" =>
        LET k == out.arg IN
        /\ out.val <=> /\ k # <<>>
                       /\ Chars(k) \subseteq UnicodeAlnum \cup {"-"}
                       /\ k[1] # "-"
                       /\ k[Len(k)] # "-"
        /\ (out.val /\ k[1] \in AsciiAlpha /\ Chars(k) \subseteq AsciiAlnum \cup {"-"}) =>
              KeyNameTakesAll(k)
        /\ (KeyNameTakesAll(k) /\ k[Len(k)] # "-") => out.val

\* 'a-': a key name the grammar takes and the validator refuses
C30_Witness ==
    /\ out.op = "validate_key_name"
    /\ out.arg = <<"a", "-">>
    /\ ~out.val
    /\ KeyNameTakesAll(out.arg)

====
